---- MODULE Spec2Model ----
(***************************************************************************)
(* Model of fireworks-tui (src/main.go).  The file holds two programs:     *)
(* the tcell variant (lines 1-202: an input-polling goroutine and a select *)
(* loop over a quit channel, a launch ticker and a frame ticker) and the   *)
(* ANSI variant (lines 204-442: one sequential launch/ascend/explode       *)
(* loop).  The variable `variant` says which program a behaviour runs.     *)
(*                                                                         *)
(* float64 values are fixed-point tenths of a cell (gravity 0.1 = 1).      *)
(* rand.Float64() is a draw d in 0..19 standing for d/20; angles are the   *)
(* twenty multiples of 18 degrees with cos/sin in thousandths.  The draws  *)
(* of one explosion come from a tape of DrawTapes.                         *)
(*                                                                         *)
(* The goroutines of the tcell variant share `rockets`, `width` and        *)
(* `height` without synchronisation.  The accesses of the main goroutine   *)
(* to `rockets` and the writes of the input goroutine are separate steps   *)
(* that interleave freely; the fireworks loop reads `width` and `height`   *)
(* once per frame tick.  The outcomes of the race are the outcomes of the  *)
(* interleavings.                                                          *)
(***************************************************************************)
EXTENDS Integers, Sequences, FiniteSets, TLC

VARIABLES
    variant,        \* "tcell" | "ansi": which main() runs
    scr,            \* <<w, h>>: the terminal's real size (screen.Size())
    width, height,  \* the cached size (main.go:95, 123, 255)
    rockets,        \* tcell: []rocket (main.go:98)
    fireworks,      \* tcell: []firework (main.go:97)
    quit,           \* tcell: TRUE once close(quit) ran (main.go:106, 114)
    mpc,            \* tcell main goroutine: position in the select loop
    mi,             \* tcell: index i of the rocket loop (0-based, main.go:144)
    mn,             \* tcell: len(rockets) taken by `range` (main.go:144)
    activeRockets,  \* tcell: local slice of the frame tick (main.go:143)
    mapp,           \* tcell: value of append(...) not yet assigned (main.go:137)
    ipc,            \* tcell input goroutine: position in its loop
    iapp,           \* tcell input goroutine: append(...) not yet assigned (main.go:120)
    calls,          \* the SetContent calls since the last screen.Clear()
    tickSize,       \* <<width, height>> as the particle loop last read them
    verdicts,       \* retention tests of the last tick: [age, n, retired] of
                    \* each burst, with its rocket's x and number of steps,
                    \* and each particle before and after the tick's update
    frameBursts,    \* bursts created by the current frame tick
    panicked,       \* "none" | "Intn" | "index" | "close": a runtime panic
    resizes,        \* resize events so far
    render,         \* tcell: the screen calls since the last screen.Clear(),
                    \* "clear" | "set" | "show" each
    fini,           \* tcell: TRUE once the deferred screen.Fini() ran (main.go:90)
    ansi            \* ANSI variant: the locals of main() and explode()

vars == <<variant, scr, width, height, rockets, fireworks, quit, mpc, mi, mn,
          activeRockets, mapp, ipc, iapp, calls, tickSize, verdicts,
          frameBursts, panicked, resizes, render, fini, ansi>>

(***************************************************************************)
(* Bounds of the model.                                                    *)
(***************************************************************************)
\* Clicks and launch ticks arrive only while fewer than MaxLive rockets and
\* bursts are active.
MaxLive == 1

\* Terminal sizes: the initial size and the sizes a resize can set.
GridSizes == {<<5, 12>>, <<4, 2>>}

\* Resize events in one run.
MaxResizes == 1

\* Cells the pointer clicks at (when inside the terminal).
Clicks == {<<4, 9>>, <<1, 11>>}

(***************************************************************************)
(* Program constants.                                                      *)
(***************************************************************************)
MinParticles == 20      \* n := rand.Intn(30) + 20
ParticleSpan == 30
MinLifetime == 10       \* lifetime: rand.Intn(20) + 10
LifetimeSpan == 20
NumChars == 5           \* len(chars)
NumColors == 7          \* len(colors)
Gravity == 1            \* p.vy += 0.1, in tenths
FrameCap == 60          \* frames < 60; frame < 60
GraceFrames == 10       \* frame > 10 (ANSI variant)
Scale == 10             \* tenths of a cell per cell

(***************************************************************************)
(* Arithmetic helpers.                                                     *)
(***************************************************************************)
\* Go's integer division truncates toward zero.
TruncDiv(a, b) == IF a >= 0 THEN a \div b ELSE -((-a) \div b)

\* int(math.Round(v)) for v in tenths: half away from zero.
Round(v) == IF v >= 0 THEN (v + 5) \div Scale ELSE -((-v + 5) \div Scale)

\* Draws of rand.Float64(): d stands for d / FloatSteps.
FloatSteps == 20

\* math.Cos and math.Sin of d / FloatSteps * 2 * math.Pi, in thousandths.
CosMilli == <<1000, 951, 809, 588, 309, 0, -309, -588, -809, -951,
              -1000, -951, -809, -588, -309, 0, 309, 588, 809, 951>>
SinMilli == <<0, 309, 588, 809, 951, 1000, 951, 809, 588, 309,
              0, -309, -588, -809, -951, -1000, -951, -809, -588, -309>>

(***************************************************************************)
(* The random draws of one explosion: n and color are rand.Intn draws,     *)
(* angle and speed rand.Float64 draws (0..19), char and life rand.Intn     *)
(* draws per particle index.                                               *)
(***************************************************************************)
MaxParticles == MinParticles + ParticleSpan - 1

DrawTapes ==
    { [n |-> 0, color |-> 0,
       angle |-> [i \in 0..(MaxParticles - 1) |-> i % FloatSteps],
       speed |-> [i \in 0..(MaxParticles - 1) |-> 0],
       char  |-> [i \in 0..(MaxParticles - 1) |-> i % NumChars],
       life  |-> [i \in 0..(MaxParticles - 1) |-> 0]],
      [n |-> 3, color |-> NumColors - 1,
       angle |-> [i \in 0..(MaxParticles - 1) |-> (7 * i + 1) % FloatSteps],
       speed |-> [i \in 0..(MaxParticles - 1) |-> (3 * i) % FloatSteps],
       char  |-> [i \in 0..(MaxParticles - 1) |-> (2 * i) % NumChars],
       life  |-> [i \in 0..(MaxParticles - 1) |-> (7 * i) % LifetimeSpan]] }

\* The colour draws of newRocket.
RocketColorDraws == {NumColors - 1}

(***************************************************************************)
(* tcell variant: newFirework, firework.update, newRocket.                 *)
(***************************************************************************)
\* float64(n) for an int n, in tenths.
float64(n) == n * Scale

\* Variation of the struct literal: lifetimes start at 1 instead of 10.
NewParticleShortLived(x, y, t, i) ==
    LET speed == (t.speed[i] * 2 * Scale) \div FloatSteps + Scale
    IN [x |-> x,
        y |-> y,
        vx |-> TruncDiv(speed * CosMilli[t.angle[i] + 1], 1000),
        vy |-> TruncDiv(speed * SinMilli[t.angle[i] + 1] * 5, 10000),
        char |-> t.char[i],
        color |-> t.color,
        lifetime |-> t.life[i] + 1]

\* One particle of newFirework / explode: the struct literal (main.go:48-58,
\* 349-359).
NewParticle(x, y, t, i) ==
    LET speed == (t.speed[i] * 2 * Scale) \div FloatSteps + Scale
    IN [x |-> x,
        y |-> y,
        vx |-> TruncDiv(speed * CosMilli[t.angle[i] + 1], 1000),
        vy |-> TruncDiv(speed * SinMilli[t.angle[i] + 1] * 5, 10000),
        char |-> t.char[i],
        color |-> t.color,
        lifetime |-> t.life[i] + MinLifetime]

\* Variation of newFirework: one particle more than drawn is made.
NewFireworkExtra(x, y, t) ==
    LET n == t.n + MinParticles
    IN [particles |-> [k \in 1..(n + 1) |-> NewParticle(x, y, t, k - 1)],
        frames |-> 0,
        cx |-> x, cy |-> y, ticks |-> 0, count |-> n]

\* newFirework(x, y) with the draws of tape t.  cx, cy, ticks, count are
\* history: the centre, the frame ticks the burst has been through and the
\* number n of particles drawn for it.
NewFirework(x, y, t) ==
    LET n == t.n + MinParticles
    IN [particles |-> [k \in 1..n |-> NewParticle(x, y, t, k - 1)],
        frames |-> 0,
        cx |-> x, cy |-> y, ticks |-> 0, count |-> n]

\* Variation of the loop body: gravity is added before the position moves.
UpdateParticleGravityFirst(p) ==
    [p EXCEPT !.x = @ + p.vx,
              !.y = @ + p.vy + Gravity,
              !.vy = @ + Gravity,
              !.lifetime = @ - 1]

\* The loop body of firework.update for one particle.
UpdateParticle(p) ==
    [p EXCEPT !.x = @ + p.vx,
              !.y = @ + p.vy,
              !.vy = @ + Gravity,
              !.lifetime = @ - 1]

Alive(p) == p.lifetime > 0

\* Variation of firework.update: the age is not advanced.
UpdateNoAge(fw) ==
    LET moved == [k \in 1..Len(fw.particles) |-> UpdateParticle(fw.particles[k])]
    IN [fw EXCEPT !.particles = SelectSeq(moved, Alive)]

\* firework.update (main.go:66-80).
Update(fw) ==
    LET moved == [k \in 1..Len(fw.particles) |-> UpdateParticle(fw.particles[k])]
    IN [fw EXCEPT !.particles = SelectSeq(moved, Alive),
                  !.frames = @ + 1]

\* Variation of the retention test: with the grace period of the ANSI variant.
KeepFireworkGrace(fw) ==
    fw.frames < FrameCap /\ (Len(fw.particles) > 0 \/ fw.frames <= GraceFrames)

\* The retention test of the frame tick (main.go:173).
KeepFirework(fw) == fw.frames < FrameCap /\ Len(fw.particles) > 0

\* Variation of newRocket: the rocket starts on the bottom row.
NewRocketBottomRow(x, targetY, h, c) ==
    [x |-> x, y |-> h - 1, targetY |-> targetY, color |-> c, trailTimer |-> 0]

\* newRocket(x, targetY, height) with colour draw c (main.go:186-202).
NewRocket(x, targetY, h, c) ==
    [x |-> x, y |-> h - 2, targetY |-> targetY, color |-> c, trailTimer |-> 0]

\* A spawned rocket with its history: the request (gx, gty), the cached size
\* read (gw, gh), who spawned it (src) and the row newRocket started it at (y0).
Spawn(x, targetY, w, h, c, src) ==
    LET r == NewRocket(x, targetY, h, c)
    IN r @@ [gx |-> x, gty |-> targetY, gw |-> w, gh |-> h, src |-> src,
             y0 |-> r.y]

(***************************************************************************)
(* The screen (tcell): SetContent drops a cell outside the real terminal.  *)
(***************************************************************************)
InGrid(x, y, w, h) == x >= 0 /\ y >= 0 /\ x < w /\ y < h

\* screen.SetContent(x, y, ch, nil, style) on behalf of a rocket or a particle
\* (kind): the call is logged, with ok saying whether the cell is inside the
\* real terminal; a cell outside it is dropped.
SetContent(cs, x, y, ch, kind) ==
    Append(cs, [x |-> x, y |-> y, ch |-> ch, kind |-> kind,
                ok |-> InGrid(x, y, scr[1], scr[2])])

\* What the back buffer holds at cell (x, y) after the logged calls: the glyph
\* of the last accepted call to the cell, or " " (cleared).
Cell(cs, x, y) ==
    LET hits == {k \in 1..Len(cs) : cs[k].ok /\ cs[k].x = x /\ cs[k].y = y}
    IN IF hits = {} THEN " "
       ELSE cs[CHOOSE k \in hits : \A j \in hits : j <= k].ch

\* screen.Clear() starts a new log of screen calls (main.go:91, 140).
Clear == <<"clear">>

\* The log rs after n more SetContent calls.
Sets(rs, n) == rs \o [k \in 1..n |-> "set"]

\* Variation of screen.Show(): the frame is flushed twice.
ShowTwice(rs) == Append(Append(rs, "show"), "show")

\* screen.Show() (main.go:179).
Show(rs) == Append(rs, "show")

(***************************************************************************)
(* Initial state: main() up to the select loop (main.go:83-106).           *)
(***************************************************************************)
AnsiOff == [pc |-> "off"]

TcellInit ==
    /\ variant = "tcell"
    /\ scr \in GridSizes
    /\ width = scr[1]
    /\ height = scr[2]
    /\ rockets = <<>>
    /\ fireworks = <<>>
    /\ quit = FALSE
    /\ mpc = "select"
    /\ mi = 0
    /\ mn = 0
    /\ activeRockets = <<>>
    /\ mapp = <<>>
    /\ ipc = "poll"
    /\ iapp = <<>>
    /\ calls = <<>>
    /\ tickSize = <<width, height>>
    /\ verdicts = <<>>
    /\ frameBursts = 0
    /\ panicked = "none"
    /\ resizes = 0
    /\ render = Clear
    /\ fini = FALSE
    /\ ansi = AnsiOff

\* Rockets and bursts active now.
Live == Len(rockets) + Len(fireworks)

TcellRunning ==
    variant = "tcell" /\ mpc \notin {"done", "panicked", "exited", "crashed"}

(***************************************************************************)
(* tcell variant: the input-polling goroutine (main.go:108-126).           *)
(***************************************************************************)
\* EventMouse with Button1: append's arguments are evaluated (main.go:118-120).
InputClick ==
    /\ TcellRunning
    /\ ipc = "poll"
    /\ Live < MaxLive
    /\ \E cl \in Clicks, c \in RocketColorDraws :
          /\ InGrid(cl[1], cl[2], scr[1], scr[2])
          /\ iapp' = Append(rockets, Spawn(cl[1], cl[2], width, height, c, "click"))
    /\ ipc' = "assign"
    /\ UNCHANGED <<render, fini, variant, scr, width, height, rockets, fireworks, quit, mpc,
                   mi, mn, activeRockets, mapp, calls, tickSize, verdicts,
                   frameBursts, panicked, resizes, ansi>>

\* rockets = append(...): the assignment (main.go:120).
InputAssign ==
    /\ TcellRunning
    /\ ipc = "assign"
    /\ rockets' = iapp
    /\ iapp' = <<>>
    /\ ipc' = "poll"
    /\ UNCHANGED <<render, fini, variant, scr, width, height, fireworks, quit, mpc, mi, mn,
                   activeRockets, mapp, calls, tickSize, verdicts, frameBursts,
                   panicked, resizes, ansi>>

\* The terminal is resized and PollEvent returns the EventResize (main.go:122).
InputResize ==
    /\ TcellRunning
    /\ ipc = "poll"
    /\ resizes < MaxResizes
    /\ \E s \in GridSizes : s # scr /\ scr' = s
    /\ resizes' = resizes + 1
    /\ ipc' = "resizeW"
    /\ UNCHANGED <<render, fini, variant, width, height, rockets, fireworks, quit, mpc, mi,
                   mn, activeRockets, mapp, iapp, calls, tickSize, verdicts,
                   frameBursts, panicked, ansi>>

\* width, height = screen.Size(): the assignment to width (main.go:123).
InputResizeW ==
    /\ TcellRunning
    /\ ipc = "resizeW"
    /\ width' = scr[1]
    /\ ipc' = "resizeH"
    /\ UNCHANGED <<render, fini, variant, scr, height, rockets, fireworks, quit, mpc, mi, mn,
                   activeRockets, mapp, iapp, calls, tickSize, verdicts,
                   frameBursts, panicked, resizes, ansi>>

\* width, height = screen.Size(): the assignment to height (main.go:123).
InputResizeH ==
    /\ TcellRunning
    /\ ipc = "resizeH"
    /\ height' = scr[2]
    /\ ipc' = "poll"
    /\ UNCHANGED <<render, fini, variant, scr, width, rockets, fireworks, quit, mpc, mi, mn,
                   activeRockets, mapp, iapp, calls, tickSize, verdicts,
                   frameBursts, panicked, resizes, ansi>>

\* Variation of the Ctrl-C handler: the goroutine closes the channel and goes
\* on polling.
InputCtrlCNoReturn ==
    /\ TcellRunning
    /\ ipc = "poll"
    /\ IF quit
       THEN /\ panicked' = "close"
            /\ mpc' = "crashed"
            /\ UNCHANGED <<quit, ipc>>
       ELSE /\ quit' = TRUE
            /\ UNCHANGED <<panicked, mpc, ipc>>
    /\ UNCHANGED <<render, fini, variant, scr, width, height, rockets, fireworks,
                   mi, mn, activeRockets, mapp, iapp, calls, tickSize, verdicts,
                   frameBursts, resizes, ansi>>

\* EventKey with KeyCtrlC: close(quit); return (main.go:113-115).
InputCtrlC ==
    /\ TcellRunning
    /\ ipc = "poll"
    /\ IF quit
       THEN \* close of a closed channel panics; a panic outside the main
            \* goroutine ends the process without main's deferred calls
            /\ panicked' = "close"
            /\ mpc' = "crashed"
            /\ UNCHANGED <<quit, ipc>>
       ELSE /\ quit' = TRUE
            /\ ipc' = "returned"
            /\ UNCHANGED <<panicked, mpc>>
    /\ UNCHANGED <<render, fini, variant, scr, width, height, rockets, fireworks,
                   mi, mn, activeRockets, mapp, iapp, calls, tickSize, verdicts,
                   frameBursts, resizes, ansi>>

(***************************************************************************)
(* tcell variant: the select loop (main.go:128-181).                       *)
(***************************************************************************)
\* Variation of the quit case: an unlabelled break leaves only the select.
MainQuitBreakSelect ==
    /\ variant = "tcell"
    /\ mpc = "select"
    /\ quit
    /\ UNCHANGED vars

\* case <-quit: break loop (main.go:131-132).
MainQuit ==
    /\ variant = "tcell"
    /\ mpc = "select"
    /\ quit
    /\ mpc' = "done"
    /\ UNCHANGED <<render, fini, variant, scr, width, height, rockets, fireworks, quit, mi,
                   mn, activeRockets, mapp, ipc, iapp, calls, tickSize, verdicts,
                   frameBursts, panicked, resizes, ansi>>

\* After the loop main returns: the deferred screen.Fini() runs and the
\* process ends (main.go:90, 182).
MainFini ==
    /\ variant = "tcell"
    /\ mpc = "done"
    /\ fini' = TRUE
    /\ mpc' = "exited"
    /\ UNCHANGED <<render, variant, scr, width, height, rockets, fireworks, quit,
                   mi, mn, activeRockets, mapp, ipc, iapp, calls, tickSize,
                   verdicts, frameBursts, panicked, resizes, ansi>>

\* A panic of the main goroutine runs its deferred calls, screen.Fini()
\* among them, before the process ends (main.go:90).
PanicUnwind ==
    /\ variant = "tcell"
    /\ mpc = "panicked"
    /\ fini' = TRUE
    /\ mpc' = "crashed"
    /\ UNCHANGED <<render, variant, scr, width, height, rockets, fireworks, quit,
                   mi, mn, activeRockets, mapp, ipc, iapp, calls, tickSize,
                   verdicts, frameBursts, panicked, resizes, ansi>>

\* rand.Intn(n) panics unless n > 0.
IntnPanics(n) == n <= 0

\* The x and targetY of a launch for draws dx, dy (main.go:135-136).
LaunchX(dx) == dx + 2
LaunchY(dy, h) == dy + h \div 4

\* case <-launchTicker.C: the draws and append's arguments (main.go:134-137).
LaunchTick ==
    /\ variant = "tcell"
    /\ mpc = "select"
    /\ Live < MaxLive
    /\ IF IntnPanics(width - 4) \/ IntnPanics(height \div 3)
       THEN /\ mpc' = "panicked"
            /\ panicked' = "Intn"
            /\ mapp' = mapp
       ELSE /\ \E dx \in 0..(width - 4 - 1), dy \in 0..(height \div 3 - 1),
                  c \in RocketColorDraws :
                  mapp' = Append(rockets,
                             Spawn(LaunchX(dx), LaunchY(dy, height), width, height, c,
                                   "launch"))
            /\ mpc' = "launchAssign"
            /\ panicked' = panicked
    /\ UNCHANGED <<render, fini, variant, scr, width, height, rockets, fireworks, quit, mi,
                   mn, activeRockets, ipc, iapp, calls, tickSize, verdicts,
                   frameBursts, resizes, ansi>>

\* rockets = append(...): the assignment (main.go:137).
LaunchAssign ==
    /\ variant = "tcell"
    /\ mpc = "launchAssign"
    /\ rockets' = mapp
    /\ mapp' = <<>>
    /\ mpc' = "select"
    /\ UNCHANGED <<render, fini, variant, scr, width, height, fireworks, quit, mi, mn,
                   activeRockets, ipc, iapp, calls, tickSize, verdicts,
                   frameBursts, panicked, resizes, ansi>>

\* case <-frameTicker.C: screen.Clear(), activeRockets := []rocket{}, and
\* `range rockets` takes the length (main.go:139-144).
FrameBegin ==
    /\ variant = "tcell"
    /\ mpc = "select"
    /\ calls' = <<>>
    /\ render' = Clear
    /\ verdicts' = <<>>
    /\ frameBursts' = 0
    /\ activeRockets' = <<>>
    /\ mn' = Len(rockets)
    /\ mi' = 0
    /\ mpc' = "rockets"
    /\ UNCHANGED <<fini, variant, scr, width, height, rockets, fireworks, quit, mapp,
                   ipc, iapp, tickSize, panicked, resizes, ansi>>

\* Variation of the ascent test: a rocket at its target row still ascends.
AscendingAtTarget(r) == r.y >= r.targetY

\* if r.y > r.targetY (main.go:146).
Ascending(r) == r.y > r.targetY

\* r.y--; r.trailTimer++ (main.go:149, 153).
StepRocket(r) == [r EXCEPT !.y = @ - 1, !.trailTimer = @ + 1]

\* The SetContent calls of an ascending rocket (main.go:148-152).
DrawRocket(cs, r) ==
    LET head == SetContent(cs, r.x, r.y, "^", "rocket")
    IN IF r.trailTimer % 2 = 0
       THEN SetContent(head, r.x, (r.y - 1) + 1, "|", "rocket")
       ELSE head

\* Variation of the explosion: the burst is centred on the target row.
ExplodeAtTarget(r, t) ==
    NewFirework(float64(r.x), float64(r.targetY), t) @@ [from |-> r]

\* The burst a rocket turns into (main.go:156).  from is history: the rocket
\* as the loop found it.
Explode(r, t) == NewFirework(float64(r.x), float64(r.y), t) @@ [from |-> r]

\* One iteration of the rocket loop: r := &rockets[i] reads the variable
\* rockets again (main.go:145-157).
FrameRocket ==
    /\ variant = "tcell"
    /\ mpc = "rockets"
    /\ mi < mn
    /\ IF mi >= Len(rockets)
       THEN /\ mpc' = "panicked"
            /\ panicked' = "index"
            /\ UNCHANGED <<rockets, fireworks, activeRockets, calls, mi,
                           frameBursts, render>>
       ELSE LET r == rockets[mi + 1]
            IN /\ IF Ascending(r)
                  THEN /\ calls' = DrawRocket(calls, r)
                       /\ render' = Sets(render, Len(DrawRocket(calls, r)) - Len(calls))
                       /\ rockets' = [rockets EXCEPT ![mi + 1] = StepRocket(r)]
                       /\ activeRockets' = Append(activeRockets, StepRocket(r))
                       /\ UNCHANGED <<fireworks, frameBursts>>
                  ELSE /\ \E t \in DrawTapes :
                             fireworks' = Append(fireworks, Explode(r, t))
                       /\ frameBursts' = frameBursts + 1
                       /\ UNCHANGED <<rockets, activeRockets, calls, render>>
               /\ mi' = mi + 1
               /\ UNCHANGED <<mpc, panicked>>
    /\ UNCHANGED <<fini, variant, scr, width, height, quit, mn, mapp, ipc, iapp,
                   tickSize, verdicts, resizes, ansi>>

\* rockets = activeRockets (main.go:159).
FrameCommit ==
    /\ variant = "tcell"
    /\ mpc = "rockets"
    /\ mi >= mn
    /\ rockets' = activeRockets
    /\ mpc' = "fireworks"
    /\ UNCHANGED <<render, fini, variant, scr, width, height, fireworks, quit, mi, mn,
                   activeRockets, mapp, ipc, iapp, calls, tickSize, verdicts,
                   frameBursts, panicked, resizes, ansi>>

\* Variation of the bounds check: the right and bottom edges are let through.
OnScreenInclusive(sx, sy) == sx >= 0 /\ sy >= 0 /\ sx <= width /\ sy <= height

\* The bounds check before a particle is drawn (main.go:168).
OnScreen(sx, sy) == sx >= 0 /\ sy >= 0 /\ sx < width /\ sy < height

\* The particles of ps that the frame tick passes to SetContent (main.go:165-172).
Drawn(ps) == SelectSeq(ps, LAMBDA p : OnScreen(Round(p.x), Round(p.y)))

\* The SetContent calls for the particles ps (main.go:166-170).
DrawParticles(cs, ps) ==
    cs \o [k \in 1..Len(ps) |->
              SetContent(<<>>, Round(ps[k].x), Round(ps[k].y), ps[k].char,
                         "particle")[1]]

RECURSIVE Flatten(_)
Flatten(ss) == IF ss = <<>> THEN <<>> ELSE Head(ss) \o Flatten(Tail(ss))

\* The fireworks loop, fireworks = activeFireworks and screen.Show()
\* (main.go:162-179).  upd is the bursts after update(), drawn the particles
\* that pass the bounds check; each is bound to its one value.
FrameFireworks ==
    /\ variant = "tcell"
    /\ mpc = "fireworks"
    /\ \E upd \in {[k \in 1..Len(fireworks) |->
                        [Update(fireworks[k]) EXCEPT !.ticks = @ + 1]]} :
       \E drawn \in {Flatten([k \in 1..Len(upd) |-> Drawn(upd[k].particles)])} :
          /\ fireworks' = SelectSeq(upd, KeepFirework)
          /\ calls' = DrawParticles(calls, drawn)
          /\ render' = Show(Sets(render, Len(drawn)))
          /\ tickSize' = <<width, height>>
          /\ verdicts' = [k \in 1..Len(upd) |->
                            [age |-> upd[k].frames,
                             n |-> Len(upd[k].particles),
                             retired |-> ~KeepFirework(upd[k]),
                             x |-> upd[k].from.x,
                             flight |-> upd[k].from.trailTimer,
                             steps |-> [j \in 1..Len(fireworks[k].particles) |->
                                 [before |-> fireworks[k].particles[j],
                                  after |-> UpdateParticle(fireworks[k].particles[j])]]]]
    /\ mpc' = "select"
    /\ UNCHANGED <<fini, variant, scr, width, height, rockets, quit, mi, mn,
                   activeRockets, mapp, ipc, iapp, frameBursts, panicked, resizes, ansi>>

TcellNext ==
    \/ InputClick
    \/ InputAssign
    \/ InputResize
    \/ InputResizeW
    \/ InputResizeH
    \/ InputCtrlC
    \/ MainQuit
    \/ MainFini
    \/ PanicUnwind
    \/ LaunchTick
    \/ LaunchAssign
    \/ FrameBegin
    \/ FrameRocket
    \/ FrameCommit
    \/ FrameFireworks

(***************************************************************************)
(* ANSI variant: main() and explode() (main.go:254-398).                   *)
(***************************************************************************)
AnsiStart ==
    [pc |-> "launch", launchX |-> 0, y |-> 0, explosionY |-> 0,
     particles |-> <<>>, frame |-> 0, count |-> 0]

AnsiInit ==
    /\ variant = "ansi"
    /\ scr \in GridSizes
    /\ width = scr[1]
    /\ height = scr[2]
    /\ rockets = <<>>
    /\ fireworks = <<>>
    /\ quit = FALSE
    /\ mpc = "off"
    /\ mi = 0
    /\ mn = 0
    /\ activeRockets = <<>>
    /\ mapp = <<>>
    /\ ipc = "off"
    /\ iapp = <<>>
    /\ calls = <<>>
    /\ tickSize = <<width, height>>
    /\ verdicts = <<>>
    /\ frameBursts = 0
    /\ panicked = "none"
    /\ resizes = 0
    /\ render = <<>>
    /\ fini = FALSE
    /\ ansi = AnsiStart

AnsiOnly == <<variant, scr, width, height, rockets, fireworks, quit, mpc, mi,
              mn, activeRockets, mapp, ipc, iapp, tickSize, frameBursts,
              resizes, render, fini>>

\* explosionY for draw dy (main.go:304).
AnsiExplosionY(dy, h) == dy + h \div 4

\* The launch position and explosion height of the next firework
\* (main.go:301-308).
AnsiLaunch ==
    /\ variant = "ansi"
    /\ ansi.pc = "launch"
    /\ IF IntnPanics(width - 4) \/ IntnPanics(height \div 2)
       THEN /\ ansi' = [ansi EXCEPT !.pc = "panicked"]
            /\ panicked' = "Intn"
       ELSE /\ \E dx \in 0..(width - 4 - 1), dy \in 0..(height \div 2 - 1) :
                  ansi' = [ansi EXCEPT !.pc = "ascend",
                                       !.launchX = LaunchX(dx),
                                       !.y = height - 1,
                                       !.explosionY = AnsiExplosionY(dy, height)]
            /\ panicked' = panicked
    /\ UNCHANGED <<AnsiOnly, calls, verdicts>>

\* One frame of the rocket: for y := launchY; y >= explosionY; y-- (main.go:309-320).
AnsiAscend ==
    /\ variant = "ansi"
    /\ ansi.pc = "ascend"
    /\ ansi.y >= ansi.explosionY
    /\ calls' = SetContent(<<>>, ansi.launchX, ansi.y, "^", "rocket")
    /\ ansi' = [ansi EXCEPT !.y = @ - 1]
    /\ UNCHANGED <<AnsiOnly, verdicts, panicked>>

\* explode(float64(launchX), float64(explosionY), width, height): the
\* particles are made (main.go:323, 340-360).
AnsiExplode ==
    /\ variant = "ansi"
    /\ ansi.pc = "ascend"
    /\ ansi.y < ansi.explosionY
    /\ \E t \in DrawTapes :
          LET fw == NewFirework(float64(ansi.launchX), float64(ansi.explosionY), t)
          IN ansi' = [ansi EXCEPT
                         !.pc = "frames",
                         !.particles = fw.particles,
                         !.count = fw.count,
                         !.frame = 0]
    /\ UNCHANGED <<AnsiOnly, calls, verdicts, panicked>>

\* The body of explode's particle loop for one particle: what it appends to
\* aliveParticles (main.go:369-388).
AnsiParticle(p) ==
    IF p.lifetime > 0
    THEN LET q == [p EXCEPT !.x = @ + p.vx, !.y = @ + p.vy, !.vy = @ + Gravity]
         IN IF InGrid(Round(q.x), Round(q.y), width, height)
            THEN <<[q EXCEPT !.lifetime = @ - 1]>>
            ELSE <<>>
    ELSE <<>>

\* The body of explode's particle loop for one particle: what it leaves in
\* particles[i] through the pointer p (main.go:369-388).
AnsiTouched(p) ==
    IF p.lifetime > 0
    THEN LET q == [p EXCEPT !.x = @ + p.vx, !.y = @ + p.vy, !.vy = @ + Gravity]
         IN IF InGrid(Round(q.x), Round(q.y), width, height)
            THEN [q EXCEPT !.lifetime = @ - 1]
            ELSE q
    ELSE p

\* if len(particles) == 0 && frame > 10 { break } (main.go:393).
AnsiBreak(ps, frame) == Len(ps) = 0 /\ frame > GraceFrames

\* One frame of explode's animation loop, with the break test and frame++
\* (main.go:363-397).
AnsiFrame ==
    /\ variant = "ansi"
    /\ ansi.pc = "frames"
    /\ LET alive == Flatten([k \in 1..Len(ansi.particles) |->
                                AnsiParticle(ansi.particles[k])])
           brk == AnsiBreak(alive, ansi.frame)
           over == brk \/ ~(ansi.frame + 1 < FrameCap)
       IN /\ calls' = DrawParticles(<<>>, alive)
          /\ ansi' = [ansi EXCEPT
                         !.particles = alive,
                         !.frame = IF brk THEN @ ELSE @ + 1,
                         !.pc = IF over THEN "sleep" ELSE "frames"]
          /\ verdicts' = <<[age |-> ansi.frame, n |-> Len(alive),
                             retired |-> over, x |-> ansi.launchX,
                             flight |-> height - ansi.explosionY,
                             steps |-> [j \in 1..Len(ansi.particles) |->
                                 [before |-> ansi.particles[j],
                                  after |-> AnsiTouched(ansi.particles[j])]]]>>
    /\ UNCHANGED <<AnsiOnly, panicked>>

\* time.Sleep(time.Second) and the next round of the loop (main.go:326).
AnsiSleep ==
    /\ variant = "ansi"
    /\ ansi.pc = "sleep"
    /\ ansi' = [ansi EXCEPT !.pc = "launch"]
    /\ UNCHANGED <<AnsiOnly, calls, verdicts, panicked>>

\* The signal goroutine: <-c, restore the terminal, os.Exit(0) (main.go:272-280).
AnsiSignal ==
    /\ variant = "ansi"
    /\ ansi.pc \notin {"exited", "panicked"}
    /\ ansi' = [ansi EXCEPT !.pc = "exited"]
    /\ UNCHANGED <<AnsiOnly, calls, verdicts, panicked>>

AnsiNext ==
    \/ AnsiLaunch
    \/ AnsiAscend
    \/ AnsiExplode
    \/ AnsiFrame
    \/ AnsiSleep
    \/ AnsiSignal

Init == TcellInit \/ AnsiInit

Next == TcellNext \/ AnsiNext

Spec == Init /\ [][Next]_vars

\* The scheduling of the tcell main goroutine: it is never suspended for ever
\* (weak fairness of its steps), the tickers keep firing, and select chooses
\* among the ready cases at random, so a case that is ready again and again
\* is eventually taken (strong fairness of the quit and frame cases).
MainFairness ==
    /\ WF_vars(LaunchAssign)
    /\ WF_vars(FrameRocket)
    /\ WF_vars(FrameCommit)
    /\ WF_vars(FrameFireworks)
    /\ WF_vars(MainFini)
    /\ WF_vars(PanicUnwind)
    /\ SF_vars(MainQuit)
    /\ SF_vars(FrameBegin)

\* The tcell variant in a terminal that is not resized.
SteadyNext ==
    \/ InputClick
    \/ InputAssign
    \/ InputCtrlC
    \/ MainQuit
    \/ MainFini
    \/ PanicUnwind
    \/ LaunchTick
    \/ LaunchAssign
    \/ FrameBegin
    \/ FrameRocket
    \/ FrameCommit
    \/ FrameFireworks

FairSpec == TcellInit /\ [][SteadyNext]_vars /\ MainFairness

(***************************************************************************)
(* Properties.                                                             *)
(***************************************************************************)
SeqSet(q) == {q[k] : k \in 1..Len(q)}

\* Every rocket record the tcell variant holds, assigned or about to be.
AllRockets ==
    SeqSet(rockets) \cup SeqSet(activeRockets) \cup SeqSet(mapp) \cup SeqSet(iapp)

\* C1: the input-polling goroutine never writes the rocket or burst
\* collections: a step of that goroutine leaves rockets and fireworks as they
\* were.  (Violated: main.go:120 assigns rockets in the goroutine.)
C1_InputNeverWritesEntities ==
    [][ipc' # ipc => (rockets' = rockets /\ fireworks' = fireworks)]_vars

\* C2: in every interleaving a rocket leaves the active set only through the
\* frame tick's rockets = activeRockets, and that assignment removes exactly as
\* many rockets as the frame tick created bursts.  (Violated: a click's
\* assignment between `range rockets` and rockets = activeRockets is lost.)
C2_RocketsLeaveOnlyByBurst ==
    [][variant = "tcell" =>
          /\ Len(rockets') < Len(rockets) => (mpc = "rockets" /\ mpc' = "fireworks")
          /\ (mpc = "rockets" /\ mpc' = "fireworks")
                => Len(rockets) - Len(rockets') = frameBursts]_vars

\* C3 as stated: a burst is retired exactly when its age is >= 60, or its age
\* is > 10 and it has no particle.  (Violated by the tcell variant: a burst
\* whose particles all drew lifetime 10 is empty, and retired, at age 10.)
C3_RetiredWithGrace ==
    \A k \in 1..Len(verdicts) :
        verdicts[k].retired <=>
            (verdicts[k].age >= FrameCap
               \/ (verdicts[k].age > GraceFrames /\ verdicts[k].n = 0))

\* C3 amended: in the tcell variant a burst is retired exactly when its age is
\* >= 60 or it has no particle, which cannot be before age 10; in the ANSI
\* variant the animation loop ends exactly when its counter reaches 60 or,
\* after an iteration with counter value frame, frame > 10 and no particle
\* is left.
C3_Retirement ==
    \A k \in 1..Len(verdicts) :
        LET v == verdicts[k]
        IN /\ variant = "tcell" =>
                 /\ v.retired <=> (v.age >= FrameCap \/ v.n = 0)
                 /\ v.n = 0 => v.age >= MinLifetime
           /\ variant = "ansi" =>
                 (v.retired <=> (v.age + 1 >= FrameCap
                                   \/ (v.age > GraceFrames /\ v.n = 0)))

\* A tcell burst is retired at age 10 with no particle left.
C3_Witness ==
    /\ variant = "tcell"
    /\ \E k \in 1..Len(verdicts) :
          verdicts[k].retired /\ verdicts[k].age = 10 /\ verdicts[k].n = 0

\* C4: at the end of every tick every particle a burst holds has lifetime > 0,
\* in both variants.  (Violated by explode: a particle drawn with lifetime 1
\* is appended to aliveParticles with lifetime 0.)
C4_LiveParticlesPositive ==
    /\ \A k \in 1..Len(fireworks) :
          \A j \in 1..Len(fireworks[k].particles) :
              fireworks[k].particles[j].lifetime > 0
    /\ ansi.pc # "off" =>
          \A j \in 1..Len(ansi.particles) : ansi.particles[j].lifetime > 0

\* C5: the age of a burst is the number of frame ticks it has been through,
\* and no burst of the active set has age >= 60: after 61 frame ticks a burst
\* is gone, whatever it was created with.
C5_NoBurstPastCap ==
    \A k \in 1..Len(fireworks) :
        /\ fireworks[k].frames = fireworks[k].ticks
        /\ fireworks[k].frames < FrameCap

\* A burst went through 29 frame ticks and was retired, leaving the set empty.
C5_Witness ==
    /\ variant = "tcell"
    /\ mpc = "select"
    /\ fireworks = <<>>
    /\ \E k \in 1..Len(verdicts) : verdicts[k].retired /\ verdicts[k].age = 29

\* C6, what one iteration of the rocket loop does with the rocket r it reads:
\* ascending, r is kept with y one less; otherwise r is not kept and one
\* burst is created with every particle at (r.x, r.y).  When the loop is
\* over, every rocket it read was kept or replaced, and the kept ones become
\* the active set.
C6_Iteration ==
    /\ (variant = "tcell" /\ mpc = "rockets" /\ mpc' = "fireworks") =>
          /\ rockets' = activeRockets
          /\ Len(activeRockets) + frameBursts = mn
    /\ (variant = "tcell" /\ mpc = "rockets" /\ mi' = mi + 1) =>
        LET r == rockets[mi + 1]
        IN IF r.y > r.targetY
           THEN /\ activeRockets' =
                      Append(activeRockets,
                             [r EXCEPT !.y = r.y - 1, !.trailTimer = @ + 1])
                /\ fireworks' = fireworks
           ELSE /\ activeRockets' = activeRockets
                /\ Len(fireworks') = Len(fireworks) + 1
                /\ SubSeq(fireworks', 1, Len(fireworks)) = fireworks
                /\ LET fw == fireworks'[Len(fireworks')]
                   IN /\ fw.from = r
                      /\ fw.particles # <<>>
                      /\ \A j \in 1..Len(fw.particles) :
                            /\ fw.particles[j].x = float64(r.x)
                            /\ fw.particles[j].y = float64(r.y)

\* C6, the rows: a rocket has lost one row per step and is never below its
\* target once stepped, and a rocket that exploded after steps did so on its
\* target row; from y = 10 to targetY = 3 that is 7 steps.
C6_Rows ==
    /\ \A r \in AllRockets :
          /\ r.y = r.y0 - r.trailTimer
          /\ r.trailTimer > 0 => r.y >= r.targetY
    /\ \A k \in 1..Len(fireworks) :
          LET r == fireworks[k].from
          IN /\ r.y <= r.targetY
             /\ r.y = r.y0 - r.trailTimer
             /\ r.trailTimer > 0 => r.y = r.targetY
             /\ (r.y0 = 10 /\ r.targetY = 3) => r.trailTimer = 7

C8_LaunchInUpperHalf ==
    /\ \A r \in AllRockets :
          r.src = "launch" =>
              /\ 2 <= r.gx /\ r.gx <= r.gw - 3
              /\ 2 * r.gty < r.gh
    /\ ansi.pc \in {"ascend", "frames", "sleep"} =>
          /\ 2 <= ansi.launchX /\ ansi.launchX <= width - 3
          /\ 2 * ansi.explosionY < height

\* C9: a spawn never fails: no launch raises the panic of rand.Intn, whatever
\* the size.  (Violated: with width <= 4, or height <= 2 in the tcell variant,
\* rand.Intn is called with 0.)
C9_SpawnNeverFails == panicked # "Intn"

\* C10: a particle whose cell lies outside the cached grid is skipped: every
\* SetContent call made for a particle is inside the width and height the
\* particle loop read, wherever the burst's rocket was.
C10_OutsideCellsSkipped ==
    \A k \in 1..Len(calls) :
        calls[k].kind = "particle" =>
            InGrid(calls[k].x, calls[k].y, tickSize[1], tickSize[2])

\* A rocket clicked at x = 4 was stepped and exploded, the grid shrank to
\* width 4, and its burst was animated until it was retired.
C10_Witness ==
    /\ variant = "tcell"
    /\ panicked = "none"
    /\ \E k \in 1..Len(verdicts) :
          /\ verdicts[k].retired
          /\ verdicts[k].flight > 0
          /\ verdicts[k].x >= tickSize[1]
          /\ verdicts[k].x >= scr[1]

\* C11, the log of screen calls of the tcell variant: it starts with the one
\* clear, holds one "set" per SetContent call since, and a "show" only as its
\* last entry; outside a frame tick the log is that of a finished tick (or of
\* the start-up clear).
C11_Log ==
    variant = "tcell" =>
        /\ render # <<>> /\ render[1] = "clear"
        /\ \A k \in 2..Len(render) : render[k] # "clear"
        /\ \A k \in 1..Len(render) : render[k] = "show" => k = Len(render)
        /\ Cardinality({k \in 1..Len(render) : render[k] = "set"}) = Len(calls)
        /\ mpc \in {"rockets", "fireworks"} => render[Len(render)] # "show"
        /\ mpc \in {"select", "launchAssign", "done", "exited"} =>
              (render = Clear \/ render[Len(render)] = "show")

\* C11, the steps: the step that ends a frame tick presents exactly once,
\* after the tick's setCell calls, and no step between a present and the next
\* clear (a click, a resize, a quit key, a launch tick) touches the screen.
C11_Step ==
    variant = "tcell" =>
        /\ (mpc = "fireworks" /\ mpc' = "select") =>
              /\ Len(render') > Len(render)
              /\ SubSeq(render', 1, Len(render)) = render
              /\ render'[Len(render')] = "show"
              /\ \A k \in (Len(render) + 1)..(Len(render') - 1) : render'[k] = "set"
        /\ (mpc \in {"select", "launchAssign"} /\ mpc' # "rockets") =>
              (render' = render /\ calls' = calls)
        /\ (mpc = "select" /\ mpc' = "rockets") => render' = Clear

C12_Counts ==
    /\ \A k \in 1..Len(fireworks) :
          LET fw == fireworks[k]
          IN /\ fw.count \in MinParticles..MaxParticles
             /\ Len(fw.particles) <= fw.count
             /\ fw.frames = 0 => Len(fw.particles) = fw.count
    /\ ansi.pc = "frames" =>
          /\ ansi.count \in MinParticles..MaxParticles
          /\ Len(ansi.particles) <= ansi.count
          /\ ansi.frame = 0 => Len(ansi.particles) = ansi.count

\* C12, the steps: a tick leaves each burst with at most the particles it
\* had, and no step other than a tick changes the particles of a burst.
C12_Step ==
    /\ (variant = "tcell" /\ mpc = "fireworks" /\ mpc' = "select") =>
          /\ Len(verdicts') = Len(fireworks)
          /\ \A k \in 1..Len(fireworks) :
                verdicts'[k].n <= Len(fireworks[k].particles)
          /\ \A j \in 1..Len(fireworks') : \E k \in 1..Len(fireworks) :
                /\ fireworks'[j].count = fireworks[k].count
                /\ fireworks'[j].ticks = fireworks[k].ticks + 1
                /\ Len(fireworks'[j].particles) <= Len(fireworks[k].particles)
    /\ (variant = "tcell" /\ mpc # "fireworks") =>
          /\ Len(fireworks') >= Len(fireworks)
          /\ SubSeq(fireworks', 1, Len(fireworks)) = fireworks
    /\ (variant = "ansi" /\ ansi.pc = "frames") =>
          (ansi'.pc = "exited" \/ Len(ansi'.particles) <= Len(ansi.particles))

\* C12: a burst created with N particles holds exactly N at age 0, and its
\* particle count never increases from one tick to the next.
C12_CountNeverGrows == [](C12_Counts) /\ [][C12_Step]_vars

\* A burst created with 23 particles has lost some of them and not all.
C12_Witness ==
    \E k \in 1..Len(fireworks) :
        /\ fireworks[k].count = 23
        /\ fireworks[k].frames > 0
        /\ Len(fireworks[k].particles) \in 1..22

\* Whether an update changed the position or the velocity of a particle.
Moved(st) ==
    \/ st.after.x # st.before.x \/ st.after.y # st.before.y
    \/ st.after.vx # st.before.vx \/ st.after.vy # st.before.vy

\* C13: a tick never increases the lifetime of a particle, and every live
\* particle it updates, in position or velocity, has its lifetime decreased by
\* exactly 1 on that tick.  (Violated by explode: a particle whose new cell is
\* outside the grid is moved and keeps its lifetime.)
C13_LifetimeDecrements ==
    \A k \in 1..Len(verdicts) :
        \A j \in 1..Len(verdicts[k].steps) :
            LET st == verdicts[k].steps[j]
            IN /\ st.after.lifetime <= st.before.lifetime
               /\ (st.before.lifetime > 0 /\ Moved(st)) =>
                     st.after.lifetime = st.before.lifetime - 1

\* C14: every update of a particle (every particle of a tcell burst, every
\* particle with lifetime > 0 in explode) adds the velocity it had to the
\* position, then g to vy, and leaves vx, glyph and colour alone; a particle
\* that is not updated is left alone; and after any number of updates a
\* tcell particle is ticks * vx to the side of its burst's centre.
C14_GravityOnly ==
    /\ \A k \in 1..Len(verdicts) :
          \A j \in 1..Len(verdicts[k].steps) :
              LET b == verdicts[k].steps[j].before
                  a == verdicts[k].steps[j].after
              IN IF variant = "tcell" \/ b.lifetime > 0
                 THEN /\ a.vy = b.vy + Gravity
                      /\ a.vx = b.vx
                      /\ a.char = b.char /\ a.color = b.color
                      /\ a.x = b.x + b.vx
                      /\ a.y = b.y + b.vy
                 ELSE a = b
    /\ \A k \in 1..Len(fireworks) :
          \A j \in 1..Len(fireworks[k].particles) :
              LET q == fireworks[k].particles[j]
              IN q.x = fireworks[k].cx + fireworks[k].ticks * q.vx

\* A tcell particle moving upwards and sideways was updated for the fifth
\* time at least.
C14_Witness ==
    /\ variant = "tcell"
    /\ \E k \in 1..Len(verdicts) :
          /\ verdicts[k].age >= 5
          /\ \E j \in 1..Len(verdicts[k].steps) :
                LET st == verdicts[k].steps[j]
                IN st.before.vy < 0 /\ st.before.vx # 0 /\ st.after.vy = st.before.vy + Gravity

\* C15, safety: screen.Fini() has run only after the loop was left and has
\* run when main has returned, and once the loop has taken the quit branch no
\* frame tick or launch tick is processed.
C15_Teardown ==
    /\ fini => mpc \in {"exited", "crashed"}
    /\ mpc = "exited" => (fini /\ quit)
    /\ mpc = "done" => quit

C15_NoTickAfterQuit ==
    mpc \in {"done", "exited"} =>
        /\ mpc' \in {"done", "exited"}
        /\ <<rockets, fireworks, render, calls>>' = <<rockets, fireworks, render, calls>>

\* C15: after Ctrl-C closed the quit channel the select loop is eventually
\* left, whatever ticks keep firing, and screen.Fini() runs after the loop and
\* before the process ends; no tick is processed after the quit branch.
C15_QuitUnwinds ==
    /\ (quit ~> (fini /\ mpc \in {"exited", "crashed"}))
    /\ [](C15_Teardown)
    /\ [][C15_NoTickAfterQuit]_vars

\* Ctrl-C arrived while a burst was active, and main left the loop through the
\* quit branch and ran screen.Fini().
C15_Witness ==
    /\ quit
    /\ mpc = "exited"
    /\ fini
    /\ fireworks # <<>>
    /\ panicked = "none"

Ended == mpc \in {"done", "exited", "panicked", "crashed"}

\* A step that spawns no rocket: neither assignment of an append.
NoSpawn == ~(ipc = "assign" /\ ipc' = "poll") /\ ~(mpc = "launchAssign" /\ mpc' = "select")

\* C17, the rockets: while frame ticks continue an active rocket, spawned by a
\* click or by a launch tick, eventually explodes.
C17_RocketsExplode ==
    \A src \in {"click", "launch"} :
        (\E k \in 1..Len(rockets) : rockets[k].src = src)
            ~> (Ended \/ \E k \in 1..Len(fireworks) : fireworks[k].from.src = src)

\* C17, the bursts: while frame ticks continue an active burst is eventually
\* retired.
C17_BurstsRetire == (fireworks # <<>>) ~> (Ended \/ fireworks = <<>>)

\* C17, the sets: if from some point on no rocket is spawned and frame ticks
\* continue, both sets eventually become and stay empty.
C17_SetsEmpty ==
    (<>[][NoSpawn]_vars /\ []<><<FrameFireworks>>_vars)
        => <>[](rockets = <<>> /\ fireworks = <<>>)

\* C17: if no further rocket is spawned, under continued frame ticks every
\* active rocket eventually explodes and every active burst is eventually
\* retired, and both sets become and stay empty.  (Violated: a rocket that a
\* click assigns during the rocket loop is dropped by rockets = activeRockets
\* and never explodes.)
C17_Drains == C17_RocketsExplode /\ C17_BurstsRetire /\ C17_SetsEmpty

\* C18: in the tcell variant a burst is retired on its k-th update with
\* 10 <= k <= 29, with no particle left (the last ones had lifetime 1 before
\* that update) and below the age cap; a burst that is kept has particles and
\* is younger than 29; and a burst gets its first update in the frame tick
\* that created it.
C18_RetiredByParticles ==
    variant = "tcell" =>
        /\ \A k \in 1..Len(verdicts) :
              LET v == verdicts[k]
              IN /\ v.retired =>
                       /\ MinLifetime <= v.age
                       /\ v.age <= MinLifetime + LifetimeSpan - 1
                       /\ v.age < FrameCap
                       /\ v.n = 0
                       /\ \A j \in 1..Len(v.steps) : v.steps[j].before.lifetime = 1
                 /\ ~v.retired =>
                       (v.n > 0 /\ v.age < MinLifetime + LifetimeSpan - 1)
        /\ \A k \in 1..Len(fireworks) :
              /\ Len(fireworks[k].particles) >= 1
              /\ fireworks[k].frames = 0 =>
                    mpc \in {"rockets", "fireworks", "panicked", "crashed"}

\* A burst was retired on its 29th update, and its last particles had
\* lifetime 1 before it.
C18_Witness ==
    /\ variant = "tcell"
    /\ \E k \in 1..Len(verdicts) :
          /\ verdicts[k].retired
          /\ verdicts[k].age = MinLifetime + LifetimeSpan - 1
          /\ verdicts[k].steps # <<>>
          /\ verdicts[k].steps[1].before.lifetime = 1

\* C19, the states: the quit channel is never closed a second time (that
\* would be the panic "close"), and once it is closed the input goroutine has
\* returned with no append pending.
C19_Closed ==
    /\ panicked # "close"
    /\ quit <=> ipc = "returned"
    /\ quit => iapp = <<>>

\* C19, the steps: the channel is never reopened, and once it is closed no
\* step is a step of the input goroutine: the cached size is not written and
\* rockets changes only by a step of the main goroutine.
C19_Step ==
    quit =>
        /\ quit'
        /\ ipc' = ipc /\ iapp' = iapp
        /\ width' = width /\ height' = height
        /\ rockets' # rockets => (mpc' # mpc \/ mi' # mi)

\* C19: the quit channel is closed at most once: after the first Ctrl-C the
\* input goroutine has stopped polling, so no later event closes it again or
\* appends a rocket.
C19_ClosedOnce == [](C19_Closed) /\ [][C19_Step]_vars

\* Ctrl-C arrived while a rocket was ascending, and the frame tick goes on
\* with the rocket loop before the quit case is taken.
C19_Witness ==
    /\ quit
    /\ ipc = "returned"
    /\ mpc = "rockets"
    /\ mi = 1
    /\ activeRockets # <<>>

====
